---------------------------- MODULE Spec2Model ----------------------------
(***************************************************************************)
(* A model of bankacct.cpp: the account list of the main menu, the account *)
(* view, and the key-by-key loops of deposit, withdraw and transfer.       *)
(*                                                                         *)
(* Every loop of the program blocks in getch() and handles one key per     *)
(* iteration.  A state of the model is the program blocked in getch(); an  *)
(* action is one key handled by the loop that reads it, up to the next     *)
(* getch().  pc names the loop that is reading.                            *)
(***************************************************************************)
EXTENDS Integers, Sequences, FiniteSets, TLC

(***************************************************************************)
(* Constants of bankacct.h and key codes of getch().                       *)
(***************************************************************************)
ACC_NUM_LENGTH == 5
MAX_ROW == 40
UI_ROWS == 6

KEY_TAB == 9
KEY_RETURN == 10
KEY_ESC == 27
KEY_POINT == 46
KEY_ZERO == 48
KEY_DOWN == 258
KEY_UP == 259
KEY_LEFT == 260
KEY_RIGHT == 261
KEY_BACKSPACE == 263

\* The literal 12 of deposit() and transferAmmount(): no digit is taken once
\* numPlaces(...) has reached it.
MAX_PLACES == 12

(***************************************************************************)
(* Bounds of the model.                                                    *)
(***************************************************************************)
\* Decimal places below the point that an amount of the model can hold.
Scale == 4
\* Keys read by one run of an amount loop (deposit, withdraw, transferAmmount).
MaxKeys == 4
\* Operations started from one account view.
MaxOps == 1

(***************************************************************************)
(* Amounts.  The program keeps balances and entered amounts in a double.   *)
(* The model keeps them as exact decimals with Scale places below the      *)
(* point, in two limbs so that 12-digit amounts fit TLC's integers:        *)
(* the value of [hi |-> h, lo |-> l] is (h * Limb + l) / Unit, with        *)
(* 0 <= l < Limb.  A negative amount has hi < 0.                           *)
(***************************************************************************)
RECURSIVE Pow10(_)
Pow10(n) == IF n <= 0 THEN 1 ELSE 10 * Pow10(n - 1)

Unit == Pow10(Scale)
Limb == Pow10(Scale + 3)

Norm(h, l) == [hi |-> h + (l \div Limb), lo |-> l % Limb]

\* whole.cc, for 0 <= whole and 0 <= cents < 100
Dec(whole, cents) ==
    Norm(whole \div 1000, (whole % 1000) * Unit + cents * (Unit \div 100))

Zero == Dec(0, 0)

Add(a, b) == Norm(a.hi + b.hi, a.lo + b.lo)
Sub(a, b) == Norm(a.hi - b.hi, a.lo - b.lo)
IsNegative(a) == a.hi < 0
IsZero(a) == a.hi = 0 /\ a.lo = 0
LessEq(a, b) == ~IsNegative(Sub(b, a))

\* a * 10, for a >= 0
Times10(a) ==
    LET q == Limb \div 10
    IN  [hi |-> a.hi * 10 + (a.lo \div q), lo |-> (a.lo % q) * 10]

\* floor(a / 10), for a >= 0
FloorDiv10(a) ==
    [hi |-> a.hi \div 10,
     lo |-> ((a.hi % 10) * 100 + ((a.lo \div Unit) \div 10)) * Unit]

\* d * pow(10, p), for a digit d and -Scale <= p <= 0
DigitAt(d, p) == Norm(0, d * Pow10(Scale + p))

\* pow(10, p) and the decimal remainder of a modulo it, for a >= 0 and
\* -Scale <= p <= 1
PowerOfTen(p) == Norm(0, Pow10(Scale + p))
Remainder(a, p) == Norm(0, a.lo % Pow10(Scale + p))

(***************************************************************************)
(* a - fmod(a, pow(10, p)), as the Backspace handlers compute it.  For     *)
(* p >= 0 the double arithmetic is exact.  For p < 0 pow(10, p) is not a   *)
(* binary fraction: when the decimal digit to strip is not 0 the result is *)
(* the amount without that digit, but when a is a decimal multiple of      *)
(* pow(10, p) the double a may lie just below that multiple, and then      *)
(* fmod returns almost pow(10, p) and the result is one step lower         *)
(* (1.50 becomes 1.40).  Which of the two happens depends on the binary    *)
(* rounding of a, which the decimal model does not hold: both outcomes     *)
(* are possible results.                                                   *)
(***************************************************************************)
StripBelow(a, p) ==
    LET r == Remainder(a, p)
    IN  IF p < 0 /\ IsZero(r) /\ LessEq(PowerOfTen(p), a)
        THEN {a, Sub(a, PowerOfTen(p))}
        ELSE {Sub(a, r)}

RECURSIVE Digits(_)
Digits(n) == IF n < 10 THEN 1 ELSE 1 + Digits(n \div 10)

\* numPlaces((long long) a): the double is truncated toward zero, a minus
\* sign counts as a place.
numPlaces(a) ==
    LET abs == IF IsNegative(a) THEN Sub(Zero, a) ELSE a
        whole == abs.lo \div Unit
        places == IF abs.hi = 0 THEN Digits(whole) ELSE Digits(abs.hi) + 3
    IN  IF IsNegative(a) /\ (abs.hi # 0 \/ whole # 0) THEN places + 1
        ELSE places

(***************************************************************************)
(* Strings are sequences of character codes.                               *)
(***************************************************************************)
RECURSIVE strcmp(_, _)
strcmp(s, t) ==
    IF s = <<>> /\ t = <<>> THEN 0
    ELSE IF s = <<>> THEN -1
    ELSE IF t = <<>> THEN 1
    ELSE IF Head(s) # Head(t) THEN Head(s) - Head(t)
    ELSE strcmp(Tail(s), Tail(t))

isalnum(c) ==
    \/ c \in 48..57
    \/ c \in 65..90
    \/ c \in 97..122

toupper(c) == IF c \in 97..122 THEN c - 32 ELSE c


(***************************************************************************)
(* Accounts.  Of struct Account the model keeps the account number, the    *)
(* balance, the password and the last name (standing for the fields that   *)
(* are only displayed).                                                    *)
(***************************************************************************)
Account(number, balance, password, last) ==
    [first |-> "Pat", last |-> last, middle |-> 75, social |-> 123456789,
     area |-> 775, phone |-> 5551234, balance |-> balance, number |-> number,
     password |-> password]

\* "A0000", "A00A0", "AA000"
NumberA0000 == <<65, 48, 48, 48, 48>>
NumberA00A0 == <<65, 48, 48, 65, 48>>
NumberAA000 == <<65, 65, 48, 48, 48>>

\* 99999999999.00, the largest balance of 11 places
ElevenNines == [hi |-> 99999999, lo |-> 999 * Unit]

\* The database the account view is modelled on, sorted as main() sorts it.
SmallBank ==
    << Account(NumberA0000, Dec(5, 0), <<97, 97, 97, 97, 97, 97>>, "Novotny"),
       Account(NumberA00A0, Dec(0, 50), <<97, 97, 97, 97, 97, 98>>, "Doe"),
       Account(NumberAA000, ElevenNines, <<98, 98, 98, 98, 98, 98>>, "Roe") >>

\* Keys of the model: the digits 0, 1 and 5, and the characters a and 0.
DigitKeys == {48, 49, 53}
CharKeys == {97, 48}

VARIABLES
    people,       \* vector<Account> people of main()
    pc,           \* the loop that is blocked in getch()
    in,           \* the key the last getch() returned
    cursorPos,    \* mainMenu: row of the cursor in the window
    windowPos,    \* mainMenu: first record shown
    height,       \* terminal height, as getmaxyx reports it
    person,       \* displayAccount: index of the account shown (1-based)
    accCursorPos, \* displayAccount: cursorPos, the operation selected
    verified,     \* displayAccount: the password was accepted
    newBalance,   \* amount loops: the amount entered
    place,        \* amount loops: the decimal place
    confirm,      \* amount loops: Enter was pressed once
    num,          \* transferAccount: the account number typed
    error,        \* transferAccount: the number typed is invalid
    to,           \* transfer: destination, an index into people, 0 for nullptr
    keys,         \* keys read by the running amount loop
    ops,          \* operations started from the account view
    tracing,      \* whether typed is kept
    typed,        \* the keys read by the running amount loop, when tracing
    pass,         \* verify: the password typed
    field,        \* openAccount: the field being entered
    buf,          \* openAccount: the characters typed into the field
    newPerson,    \* openAccount: the account being filled in
    file,         \* the database file: its records, or NoFile
    writes,       \* how many times the database file was written
    exitCode      \* exit code of the process, Running until it ends

vars == <<people, pc, in, cursorPos, windowPos, height, person, accCursorPos,
          verified, newBalance, place, confirm, num, error, to, keys, ops,
          tracing, typed, pass, field, buf, newPerson, file, writes, exitCode>>

menuVars == <<cursorPos, windowPos, height>>
entryVars == <<newBalance, place, confirm>>
selectVars == <<num, error, to>>
openVars == <<field, buf, newPerson>>
processVars == <<file, writes, exitCode>>
\* What the account view and the loops it calls neither read nor write.
restVars == <<pass, openVars, processVars>>

\* The database file does not exist or cannot be opened.
NoFile == "no file"

\* The process has not ended.
Running == "running"

\* The nine words loadDatabase() reads account a from, in the order it reads
\* them.
Stored(a) ==
    <<a.last, a.first, a.middle, a.social, a.area, a.phone, a.balance,
      a.number, a.password>>

\* openAccount(): Account newPerson; every field is written before it is read.
BlankAccount == Account(<<>>, Zero, <<>>, <<>>)

\* While the store p is shown by a menu that is not verify() or
\* openAccount(): their locals do not exist, the file is the one p was
\* loaded from, and the process runs.
RestInit(p) ==
    /\ pass = <<>>
    /\ field = 0
    /\ buf = <<>>
    /\ newPerson = BlankAccount
    /\ file = [i \in 1..Len(p) |-> Stored(p[i])]
    /\ writes = 0
    /\ exitCode = Running

\* The locals of an amount loop as one value.
Entry == [newBalance |-> newBalance, place |-> place, confirm |-> confirm]
EntryStart == [newBalance |-> Zero, place |-> 0, confirm |-> FALSE]

SetEntry(e) ==
    /\ newBalance' = e.newBalance
    /\ place' = e.place
    /\ confirm' = e.confirm

\* getch() returned key k in an amount loop.
ReadKey(k) ==
    /\ keys < MaxKeys
    /\ in' = k
    /\ typed' = IF tracing THEN Append(typed, k) ELSE typed
    /\ UNCHANGED <<tracing, restVars>>

\* The amount loop goes round to its next getch().
Again ==
    /\ pc' = pc
    /\ keys' = keys + 1

\* An amount loop begins: its locals are initialised.
BeginEntry ==
    /\ SetEntry(EntryStart)
    /\ keys' = 0
    /\ typed' = <<>>
    /\ UNCHANGED <<tracing, restVars>>

\* An amount loop returns to the account view.
Return ==
    /\ pc' = "displayAccount"
    /\ SetEntry(EntryStart)
    /\ to' = 0
    /\ keys' = 0

(***************************************************************************)
(* mainMenu(): the account list.  cursorPos, windowPos, height and numRows *)
(* are unsigned int: the model keeps an unsigned value as the 32-bit       *)
(* two's-complement integer with the same bits, so that sums and           *)
(* differences are the plain ones and only the comparisons differ.         *)
(***************************************************************************)
\* a < b for unsigned a and b
ULess(a, b) == IF (a < 0) = (b < 0) THEN a < b ELSE b < 0

\* numRows = height - UI_ROWS > MAX_ROW ? MAX_ROW : height - UI_ROWS;
numRowsOf(h) == IF ULess(MAX_ROW, h - UI_ROWS) THEN MAX_ROW ELSE h - UI_ROWS

View == [cursorPos |-> cursorPos, windowPos |-> windowPos]

\* The top of the loop, which runs before every getch(): fit the window to
\* the n records and the rows of the terminal.
adjust(v, n, rows) ==
    LET fit == IF n < rows
               THEN [cursorPos |-> v.cursorPos + v.windowPos, windowPos |-> 0]
               ELSE IF ULess(n - rows, v.windowPos)
               THEN [cursorPos |-> v.cursorPos + (v.windowPos - (n - rows)),
                     windowPos |-> n - rows]
               ELSE v
    IN  IF ~ULess(fit.cursorPos, rows)
        THEN [fit EXCEPT !.windowPos = @ + (fit.cursorPos - rows + 1)]
        ELSE fit

\* An Up key that wraps to the last row of the first window: C24 fails
\* under it.
upKeyWrapsToTop(v, n, rows) ==
    IF v.cursorPos # 0 THEN [v EXCEPT !.cursorPos = @ - 1]
    ELSE IF n <= rows THEN [v EXCEPT !.cursorPos = n - 1]
    ELSE IF v.windowPos # 0 THEN [v EXCEPT !.windowPos = @ - 1]
    ELSE [cursorPos |-> rows - 1, windowPos |-> 0]

\* case KEY_UP
upKey(v, n, rows) ==
    IF v.cursorPos # 0 THEN [v EXCEPT !.cursorPos = @ - 1]
    ELSE IF n <= rows THEN [v EXCEPT !.cursorPos = n - 1]
    ELSE IF v.windowPos # 0 THEN [v EXCEPT !.windowPos = @ - 1]
    ELSE [cursorPos |-> rows - 1, windowPos |-> n - (rows - 1) - 1]

\* A Down key that wraps one record late: C10 fails under it.
downKeyWrapsLate(v, n, h) ==
    IF n > 0 /\ ~ULess(v.cursorPos + v.windowPos, n)
    THEN [cursorPos |-> 0, windowPos |-> 0]
    ELSE IF v.cursorPos = MAX_ROW - 1 \/ v.cursorPos = h - 7
    THEN [v EXCEPT !.windowPos = @ + 1]
    ELSE [v EXCEPT !.cursorPos = @ + 1]

\* case KEY_DOWN.  people->size() - 1 is a size_t: with no record it is the
\* largest one and the first test fails.
downKey(v, n, h) ==
    IF n > 0 /\ ~ULess(v.cursorPos + v.windowPos, n - 1)
    THEN [cursorPos |-> 0, windowPos |-> 0]
    ELSE IF v.cursorPos = MAX_ROW - 1 \/ v.cursorPos = h - 7
    THEN [v EXCEPT !.windowPos = @ + 1]
    ELSE [v EXCEPT !.cursorPos = @ + 1]

\* The key was handled leaving v; the loop runs to its next getch().
NextView(v) ==
    /\ cursorPos' = adjust(v, Len(people), numRowsOf(height)).cursorPos
    /\ windowPos' = adjust(v, Len(people), numRowsOf(height)).windowPos

MenuUp ==
    /\ pc = "mainMenu"
    /\ in' = KEY_UP
    /\ NextView(upKey(View, Len(people), numRowsOf(height)))
    /\ UNCHANGED <<people, pc, height, person, accCursorPos, verified,
                   entryVars, selectVars, keys, ops, tracing, typed, restVars>>

MenuDown ==
    /\ pc = "mainMenu"
    /\ in' = KEY_DOWN
    /\ NextView(downKey(View, Len(people), height))
    /\ UNCHANGED <<people, pc, height, person, accCursorPos, verified,
                   entryVars, selectVars, keys, ops, tracing, typed, restVars>>

(***************************************************************************)
(* displayAccount(): the account view.                                     *)
(***************************************************************************)
DisplayLeft ==
    /\ pc = "displayAccount"
    /\ in' = KEY_LEFT
    /\ accCursorPos' = IF accCursorPos # 0 THEN accCursorPos - 1 ELSE 3
    /\ UNCHANGED <<people, pc, menuVars, person, verified, entryVars,
                   selectVars, keys, ops, tracing, typed, restVars>>

DisplayRight ==
    /\ pc = "displayAccount"
    /\ in' = KEY_RIGHT
    /\ accCursorPos' = IF accCursorPos < 3 THEN accCursorPos + 1 ELSE 0
    /\ UNCHANGED <<people, pc, menuVars, person, verified, entryVars,
                   selectVars, keys, ops, tracing, typed, restVars>>

\* Enter on Deposit, Withdraw or Transfer.  Without an accepted password
\* verify() reads the next keys; with one the operation begins: deposit() and
\* withdraw() start their amount loop, transfer() calls transferAccount().
DisplayEnter ==
    /\ pc = "displayAccount"
    /\ accCursorPos \in 0..2
    /\ ops < MaxOps
    /\ in' = KEY_RETURN
    /\ IF ~verified
       THEN /\ pc' = "verify"
            /\ UNCHANGED <<ops, entryVars, selectVars, keys, tracing, typed, restVars>>
       ELSE /\ pc' = CASE accCursorPos = 0 -> "deposit"
                       [] accCursorPos = 1 -> "withdraw"
                       [] accCursorPos = 2 -> "transferAccount"
            /\ ops' = ops + 1
            /\ BeginEntry
            /\ num' = <<>>
            /\ error' = FALSE
            /\ to' = 0
    /\ UNCHANGED <<people, menuVars, person, accCursorPos, verified>>

(***************************************************************************)
(* The key handlers shared by the amount loops.  Each is the switch case   *)
(* of the loop as a function of the loop's locals e.                       *)
(***************************************************************************)
\* A digit taken without clearing the confirmation: C5 fails under it.
TakeDigitKeepsConfirm(e, key) ==
    [newBalance |-> Add(IF e.place = 0 THEN Times10(e.newBalance)
                                       ELSE e.newBalance,
                        DigitAt(key - KEY_ZERO, e.place)),
     place |-> IF e.place # 0 THEN e.place - 1 ELSE e.place,
     confirm |-> e.confirm]

\* A digit added without the shift of the whole part: C7 fails under it.
TakeDigitNoShift(e, key) ==
    [newBalance |-> Add(e.newBalance, DigitAt(key - KEY_ZERO, e.place)),
     place |-> IF e.place # 0 THEN e.place - 1 ELSE e.place,
     confirm |-> FALSE]

\* The statements every accepted digit ends with:
\*   newBalance += (in - '0') * pow(10, place); if(place) place--;
\* after newBalance *= 10 when no decimal point was typed.
TakeDigit(e, key) ==
    [newBalance |-> Add(IF e.place = 0 THEN Times10(e.newBalance)
                                       ELSE e.newBalance,
                        DigitAt(key - KEY_ZERO, e.place)),
     place |-> IF e.place # 0 THEN e.place - 1 ELSE e.place,
     confirm |-> FALSE]

\* case '0': if(!newBalance) continue;
LeadingZero(e, key) == key = KEY_ZERO /\ IsZero(e.newBalance)

\* case '.'
pointKey(e) ==
    [e EXCEPT !.confirm = FALSE,
              !.place = IF e.place = 0 THEN e.place - 1 ELSE e.place]

\* A Backspace that leaves the whole part as it is: C9 fails under it.
backspaceKeyKeepsWhole(e) ==
    IF e.place # 0
    THEN { [newBalance |-> a, place |-> e.place + 1, confirm |-> FALSE] :
             a \in StripBelow(e.newBalance, e.place + 2) }
    ELSE { [e EXCEPT !.confirm = FALSE] }

\* case KEY_BACKSPACE: the set of possible results (see StripBelow)
backspaceKey(e) ==
    IF e.place # 0
    THEN { [newBalance |-> a, place |-> e.place + 1, confirm |-> FALSE] :
             a \in StripBelow(e.newBalance, e.place + 2) }
    ELSE { [newBalance |-> FloorDiv10(e.newBalance), place |-> e.place,
            confirm |-> FALSE] }

(***************************************************************************)
(* deposit()                                                               *)
(***************************************************************************)
depositDigit(e, balance, key) ==
    IF LeadingZero(e, key) THEN e
    ELSE IF e.place < -2 THEN [e EXCEPT !.confirm = FALSE]
    ELSE IF e.place = 0 /\ numPlaces(Add(balance, e.newBalance)) >= MAX_PLACES
    THEN [e EXCEPT !.confirm = FALSE]
    ELSE TakeDigit(e, key)

DepositDigit(key) ==
    /\ pc = "deposit"
    /\ ReadKey(key)
    /\ SetEntry(depositDigit(Entry, people[person].balance, key))
    /\ Again
    /\ UNCHANGED <<people, menuVars, person, accCursorPos, verified,
                   selectVars, ops>>

DepositPoint ==
    /\ pc = "deposit"
    /\ ReadKey(KEY_POINT)
    /\ SetEntry(pointKey(Entry))
    /\ Again
    /\ UNCHANGED <<people, menuVars, person, accCursorPos, verified,
                   selectVars, ops>>

DepositBackspace ==
    /\ pc = "deposit"
    /\ ReadKey(KEY_BACKSPACE)
    /\ \E e \in backspaceKey(Entry) : SetEntry(e)
    /\ Again
    /\ UNCHANGED <<people, menuVars, person, accCursorPos, verified,
                   selectVars, ops>>

\* A deposit that adds the amount twice: C34 fails under it.
DepositEnterAddsTwice ==
    /\ pc = "deposit"
    /\ ReadKey(KEY_RETURN)
    /\ IF confirm
       THEN /\ people' = [people EXCEPT ![person].balance =
                                          Add(Add(@, newBalance), newBalance)]
            /\ Return
       ELSE /\ confirm' = TRUE
            /\ Again
            /\ UNCHANGED <<people, newBalance, place, to>>
    /\ UNCHANGED <<menuVars, person, accCursorPos, verified, num, error, ops>>

DepositEnter ==
    /\ pc = "deposit"
    /\ ReadKey(KEY_RETURN)
    /\ IF confirm
       THEN /\ people' = [people EXCEPT ![person].balance = Add(@, newBalance)]
            /\ Return
       ELSE /\ confirm' = TRUE
            /\ Again
            /\ UNCHANGED <<people, newBalance, place, to>>
    /\ UNCHANGED <<menuVars, person, accCursorPos, verified, num, error, ops>>

\* An Escape that leaves deposit() even with the confirmation pending: C30
\* fails under it.
DepositEscAbandons ==
    /\ pc = "deposit"
    /\ ReadKey(KEY_ESC)
    /\ Return
    /\ UNCHANGED <<people, menuVars, person, accCursorPos, verified, num,
                   error, ops>>

DepositEsc ==
    /\ pc = "deposit"
    /\ ReadKey(KEY_ESC)
    /\ IF confirm
       THEN /\ confirm' = FALSE
            /\ Again
            /\ UNCHANGED <<newBalance, place, to>>
       ELSE Return
    /\ UNCHANGED <<people, menuVars, person, accCursorPos, verified, num,
                   error, ops>>

(***************************************************************************)
(* withdraw()                                                              *)
(***************************************************************************)
withdrawDigit(e, balance, key) ==
    IF LeadingZero(e, key) THEN e
    ELSE IF IsNegative(Sub(balance, e.newBalance))
    THEN [e EXCEPT !.confirm = FALSE]
    ELSE TakeDigit(e, key)

\* withdraw() has no limit on the digits after the point: the model takes
\* them down to its last decimal place.
WithdrawDigit(key) ==
    /\ pc = "withdraw"
    /\ place >= -Scale
    /\ ReadKey(key)
    /\ SetEntry(withdrawDigit(Entry, people[person].balance, key))
    /\ Again
    /\ UNCHANGED <<people, menuVars, person, accCursorPos, verified,
                   selectVars, ops>>

WithdrawPoint ==
    /\ pc = "withdraw"
    /\ ReadKey(KEY_POINT)
    /\ SetEntry(pointKey(Entry))
    /\ Again
    /\ UNCHANGED <<people, menuVars, person, accCursorPos, verified,
                   selectVars, ops>>

WithdrawBackspace ==
    /\ pc = "withdraw"
    /\ ReadKey(KEY_BACKSPACE)
    /\ \E e \in backspaceKey(Entry) : SetEntry(e)
    /\ Again
    /\ UNCHANGED <<people, menuVars, person, accCursorPos, verified,
                   selectVars, ops>>

\* Enter arming the confirmation whatever the balance: C2 fails under it.
WithdrawEnterArmsAlways ==
    /\ pc = "withdraw"
    /\ ReadKey(KEY_RETURN)
    /\ IF confirm
       THEN /\ people' = [people EXCEPT ![person].balance = Sub(@, newBalance)]
            /\ Return
       ELSE /\ confirm' = TRUE
            /\ Again
            /\ UNCHANGED <<people, newBalance, place, to>>
    /\ UNCHANGED <<menuVars, person, accCursorPos, verified, num, error, ops>>

WithdrawEnter ==
    /\ pc = "withdraw"
    /\ ReadKey(KEY_RETURN)
    /\ IF confirm
       THEN /\ people' = [people EXCEPT ![person].balance = Sub(@, newBalance)]
            /\ Return
       ELSE /\ confirm' = ~IsNegative(Sub(people[person].balance, newBalance))
            /\ Again
            /\ UNCHANGED <<people, newBalance, place, to>>
    /\ UNCHANGED <<menuVars, person, accCursorPos, verified, num, error, ops>>

WithdrawEsc ==
    /\ pc = "withdraw"
    /\ ReadKey(KEY_ESC)
    /\ IF confirm
       THEN /\ confirm' = FALSE
            /\ Again
            /\ UNCHANGED <<newBalance, place, to>>
       ELSE Return
    /\ UNCHANGED <<people, menuVars, person, accCursorPos, verified, num,
                   error, ops>>

(***************************************************************************)
(* transferAccount(): the destination of a transfer.  from is               *)
(* people[person]; to is an index into people, 0 for nullptr.              *)
(***************************************************************************)
\* The first account with this number, 0 when there is none.
FindNumber(n) ==
    IF \E i \in 1..Len(people) : people[i].number = n
    THEN CHOOSE i \in 1..Len(people) :
           /\ people[i].number = n
           /\ \A j \in 1..(i - 1) : people[j].number # n
    ELSE 0

\* The top of the loop, which runs before every getch():
\*   if(strlen(num) == ACC_NUM_LENGTH) { look num up; if(!to) error = true; }
LookUp(n, t, err) ==
    IF Len(n) = ACC_NUM_LENGTH
    THEN LET t2 == IF FindNumber(n) # 0 THEN FindNumber(n) ELSE t
         IN  [to |-> t2, error |-> IF t2 = 0 THEN TRUE ELSE err]
    ELSE [to |-> t, error |-> err]

\* The key was handled leaving n, t, err; the loop runs to its next getch().
NextSelect(n, t, err) ==
    /\ num' = n
    /\ to' = LookUp(n, t, err).to
    /\ error' = LookUp(n, t, err).error

\* case '\t': the first account other than from whose number follows the
\* number of to (of num when there is no to); people[0] when there is none.
tabKey(n, t) ==
    LET after == IF t = 0 THEN n ELSE people[t].number
        next == { i \in 1..Len(people) :
                    i # person /\ strcmp(after, people[i].number) < 0 }
    IN  IF next # {} THEN CHOOSE i \in next : \A j \in next : i <= j
        ELSE 1

SelectChar(c) ==
    /\ pc = "transferAccount"
    /\ in' = c
    /\ IF ~isalnum(c) \/ Len(num) >= 5
       THEN NextSelect(num, to, error)
       ELSE NextSelect(Append(num, toupper(c)), to, FALSE)
    /\ UNCHANGED <<people, pc, menuVars, person, accCursorPos, verified,
                   entryVars, keys, ops, tracing, typed, restVars>>

\* With a destination its number becomes the text and loses its last
\* character.  With no destination and no text, num[strlen(num) - 1] = '\0'
\* writes the byte before num: undefined behaviour, which either changes
\* nothing the program reads again or leaves the program in no state of
\* this model (pc = "undefined").
SelectBackspace ==
    /\ pc = "transferAccount"
    /\ in' = KEY_BACKSPACE
    /\ LET text == IF to # 0 THEN people[to].number ELSE num
       IN  IF text # <<>>
           THEN /\ NextSelect(SubSeq(text, 1, Len(text) - 1), 0, FALSE)
                /\ pc' = pc
           ELSE /\ NextSelect(num, 0, FALSE)
                /\ pc' \in {pc, "undefined"}
    /\ UNCHANGED <<people, menuVars, person, accCursorPos, verified,
                   entryVars, keys, ops, tracing, typed, restVars>>

SelectTab ==
    /\ pc = "transferAccount"
    /\ in' = KEY_TAB
    /\ NextSelect(num, tabKey(num, to), error)
    /\ UNCHANGED <<people, pc, menuVars, person, accCursorPos, verified,
                   entryVars, keys, ops, tracing, typed, restVars>>

\* Enter with a destination returns it, and transfer() starts
\* transferAmmount(&people[person], to); without one it sets error.
SelectEnter ==
    /\ pc = "transferAccount"
    /\ in' = KEY_RETURN
    /\ IF to # 0
       THEN /\ pc' = "transferAmmount"
            /\ num' = <<>>
            /\ error' = FALSE
            /\ BeginEntry
            /\ UNCHANGED to
       ELSE /\ NextSelect(num, to, TRUE)
            /\ UNCHANGED <<pc, entryVars, keys, tracing, typed, restVars>>
    /\ UNCHANGED <<people, menuVars, person, accCursorPos, verified, ops>>

\* Escape returns nullptr and transfer() returns to the account view.
SelectEsc ==
    /\ pc = "transferAccount"
    /\ in' = KEY_ESC
    /\ pc' = "displayAccount"
    /\ num' = <<>>
    /\ error' = FALSE
    /\ to' = 0
    /\ UNCHANGED <<people, menuVars, person, accCursorPos, verified,
                   entryVars, keys, ops, tracing, typed, restVars>>

(***************************************************************************)
(* transferAmmount(from, to)                                               *)
(***************************************************************************)
transferDigit(e, fromBalance, toBalance, key) ==
    IF LeadingZero(e, key) THEN e
    ELSE IF e.place < -2 THEN [e EXCEPT !.confirm = FALSE]
    ELSE IF /\ e.place = 0
            /\ \/ numPlaces(Add(toBalance, e.newBalance)) >= MAX_PLACES
               \/ IsNegative(Sub(fromBalance, e.newBalance))
    THEN [e EXCEPT !.confirm = FALSE]
    ELSE TakeDigit(e, key)

TransferDigit(key) ==
    /\ pc = "transferAmmount"
    /\ ReadKey(key)
    /\ SetEntry(transferDigit(Entry, people[person].balance,
                              people[to].balance, key))
    /\ Again
    /\ UNCHANGED <<people, menuVars, person, accCursorPos, verified,
                   selectVars, ops>>

TransferPoint ==
    /\ pc = "transferAmmount"
    /\ ReadKey(KEY_POINT)
    /\ SetEntry(pointKey(Entry))
    /\ Again
    /\ UNCHANGED <<people, menuVars, person, accCursorPos, verified,
                   selectVars, ops>>

TransferBackspace ==
    /\ pc = "transferAmmount"
    /\ ReadKey(KEY_BACKSPACE)
    /\ \E e \in backspaceKey(Entry) : SetEntry(e)
    /\ Again
    /\ UNCHANGED <<people, menuVars, person, accCursorPos, verified,
                   selectVars, ops>>

\* A transfer that debits and does not credit: C3 fails under it.
transferDebitOnly(p, from, dest, amount) ==
    [p EXCEPT ![from].balance = Sub(@, amount)]

\* from->balance -= newBalance; to->balance += newBalance;
transferBalances(p, from, dest, amount) ==
    LET debited == [p EXCEPT ![from].balance = Sub(@, amount)]
    IN  [debited EXCEPT ![dest].balance = Add(@, amount)]

TransferEnter ==
    /\ pc = "transferAmmount"
    /\ ReadKey(KEY_RETURN)
    /\ IF confirm
       THEN /\ people' = transferBalances(people, person, to, newBalance)
            /\ Return
       ELSE /\ confirm' = TRUE
            /\ Again
            /\ UNCHANGED <<people, newBalance, place, to>>
    /\ UNCHANGED <<menuVars, person, accCursorPos, verified, num, error, ops>>

TransferEsc ==
    /\ pc = "transferAmmount"
    /\ ReadKey(KEY_ESC)
    /\ IF confirm
       THEN /\ confirm' = FALSE
            /\ Again
            /\ UNCHANGED <<newBalance, place, to>>
       ELSE Return
    /\ UNCHANGED <<people, menuVars, person, accCursorPos, verified, num,
                   error, ops>>

(***************************************************************************)
(* The account view of one account, from the moment its password was       *)
(* accepted: the operations on it, key by key.                             *)
(***************************************************************************)
Init ==
    /\ people = SmallBank
    /\ pc = "displayAccount"
    /\ in = KEY_RETURN
    /\ cursorPos = 0
    /\ windowPos = 0
    /\ height = 24
    /\ person \in 1..Len(SmallBank)
    /\ accCursorPos = 0
    /\ verified = TRUE
    /\ newBalance = Zero
    /\ place = 0
    /\ confirm = FALSE
    /\ num = <<>>
    /\ error = FALSE
    /\ to = 0
    /\ keys = 0
    /\ ops = 0
    /\ tracing = FALSE
    /\ typed = <<>>
    /\ RestInit(people)

Next ==
    \/ DisplayLeft
    \/ DisplayRight
    \/ DisplayEnter
    \/ \E key \in DigitKeys : DepositDigit(key)
    \/ DepositPoint
    \/ DepositBackspace
    \/ DepositEnter
    \/ DepositEsc
    \/ \E key \in DigitKeys : WithdrawDigit(key)
    \/ WithdrawPoint
    \/ WithdrawBackspace
    \/ WithdrawEnter
    \/ WithdrawEsc
    \/ \E c \in CharKeys : SelectChar(c)
    \/ SelectBackspace
    \/ SelectTab
    \/ SelectEnter
    \/ SelectEsc
    \/ \E key \in DigitKeys : TransferDigit(key)
    \/ TransferPoint
    \/ TransferBackspace
    \/ TransferEnter
    \/ TransferEsc

Spec == Init /\ [][Next]_vars

TypeOK ==
    /\ pc \in {"displayAccount", "deposit", "withdraw", "transferAccount",
               "transferAmmount", "undefined"}
    /\ place \in (-Scale - 1)..0
    /\ newBalance.lo \in 0..(Limb - 1)
    /\ newBalance.hi >= 0
    /\ to \in 0..Len(people)
    /\ Len(num) <= ACC_NUM_LENGTH

(***************************************************************************)
(* The account list alone: a database of n accounts "A0001", "A0002", ...  *)
(* in a terminal of a fixed height, and the keys Up and Down.              *)
(***************************************************************************)
\* Accounts of the largest list.
MaxAccounts == 42

\* Terminal heights: 1, 3 and 5 list rows; 40 rows, cut off by the height
\* (46) and by MAX_ROW (47).
ListHeights == {7, 9, 11, 46, 47}

NumberOf(i) == <<65, 48, 48 + (i \div 100), 48 + ((i \div 10) % 10), 48 + (i % 10)>>

Bank(n) ==
    [i \in 1..n |-> Account(NumberOf(i), Dec(i, 0), <<97, 97, 97, 97, 97, 97>>,
                            "Doe")]

ListInit ==
    /\ \E n \in 1..MaxAccounts : people = Bank(n)
    /\ height \in ListHeights
    /\ pc = "mainMenu"
    /\ in = KEY_RETURN
    /\ cursorPos = 0
    /\ windowPos = 0
    /\ person = 0
    /\ accCursorPos = 0
    /\ verified = FALSE
    /\ newBalance = Zero
    /\ place = 0
    /\ confirm = FALSE
    /\ num = <<>>
    /\ error = FALSE
    /\ to = 0
    /\ keys = 0
    /\ ops = 0
    /\ tracing = FALSE
    /\ typed = <<>>
    /\ RestInit(people)

ListNext ==
    \/ MenuUp
    \/ MenuDown

SpecList == ListInit /\ [][ListNext]_vars

(***************************************************************************)
(* The amount loops fed with digit keys alone, the keys kept in typed.     *)
(* transferAmmount runs with every destination transferAccount can return. *)
(***************************************************************************)
DigitsInit ==
    /\ people = SmallBank
    /\ person \in 1..Len(SmallBank)
    /\ \/ pc \in {"deposit", "withdraw"} /\ to = 0
       \/ pc = "transferAmmount" /\ to \in 1..Len(SmallBank)
    /\ in = KEY_RETURN
    /\ cursorPos = 0
    /\ windowPos = 0
    /\ height = 24
    /\ accCursorPos = 0
    /\ verified = TRUE
    /\ newBalance = Zero
    /\ place = 0
    /\ confirm = FALSE
    /\ num = <<>>
    /\ error = FALSE
    /\ keys = 0
    /\ ops = 1
    /\ tracing = TRUE
    /\ typed = <<>>
    /\ RestInit(people)

DigitsNext ==
    \/ \E key \in DigitKeys : DepositDigit(key)
    \/ \E key \in DigitKeys : WithdrawDigit(key)
    \/ \E key \in DigitKeys : TransferDigit(key)

SpecDigits == DigitsInit /\ [][DigitsNext]_vars

(***************************************************************************)
(* Properties.                                                             *)
(***************************************************************************)
InAmountLoop == pc \in {"deposit", "withdraw", "transferAmmount"}

EditKeys == DigitKeys \cup {KEY_POINT, KEY_BACKSPACE}

\* The amount entered exceeds the balance of the account shown.
Overdrawn == IsNegative(Sub(people[person].balance, newBalance))

RECURSIVE SumOfBalances(_)
SumOfBalances(p) ==
    IF p = <<>> THEN Zero
    ELSE Add(Head(p).balance, SumOfBalances(Tail(p)))

\* The integer that a sequence of digit keys writes.
RECURSIVE NumberTyped(_)
NumberTyped(ks) ==
    IF ks = <<>> THEN Zero
    ELSE Add(Times10(NumberTyped(SubSeq(ks, 1, Len(ks) - 1))),
             DigitAt(ks[Len(ks)] - KEY_ZERO, 0))

\* C1 (as claimed): in transferAmmount, Enter does not arm the confirmation
\* while the amount exceeds the balance of the source account, and no step of
\* the loop takes a source balance that is not negative below zero.
C1_TransferKeepsSourceNonNegative ==
    [][pc = "transferAmmount" =>
         /\ (in' = KEY_RETURN /\ ~confirm /\ Overdrawn) => ~confirm'
         /\ ~IsNegative(people[person].balance)
              => ~IsNegative(people'[person].balance)]_vars

\* C2: in withdraw, a step that changes the store leaves the balance of the
\* account at zero or more, and Enter pressed while the amount exceeds the
\* balance changes neither the amount, the decimal place nor the store,
\* stays in the loop and leaves confirm false.
C2_WithdrawNeverOverdraws ==
    [][pc = "withdraw" =>
         /\ people' # people => ~IsNegative(people'[person].balance)
         /\ (in' = KEY_RETURN /\ Overdrawn) =>
              /\ UNCHANGED <<newBalance, place, people, pc>>
              /\ ~confirm']_vars

\* C2 witness: Enter was pressed in withdraw on an amount above the balance.
C2_Witness ==
    /\ pc = "withdraw"
    /\ in = KEY_RETURN
    /\ Overdrawn
    /\ ~confirm

\* C3: a step of transferAmmount either leaves the store as it is or, for a
\* destination other than the source, takes the amount entered from the
\* source balance and adds it to the destination balance, changing nothing
\* else; Enter on an armed confirmation does the latter; and no step changes
\* the sum of the balances.
C3_TransferMovesTheAmount ==
    [][pc = "transferAmmount" =>
         /\ \/ people' = people
            \/ /\ to # person
               /\ people' =
                    [people EXCEPT
                       ![person].balance = Sub(people[person].balance, newBalance),
                       ![to].balance = Add(people[to].balance, newBalance)]
         /\ (in' = KEY_RETURN /\ confirm /\ to # person) =>
               /\ people'[person].balance = Sub(people[person].balance, newBalance)
               /\ people'[to].balance = Add(people[to].balance, newBalance)
         /\ SumOfBalances(people') = SumOfBalances(people)]_vars

\* C3 witness: 5.00 went from the first account to the second.
C3_Witness ==
    /\ pc = "displayAccount"
    /\ person = 1
    /\ people[1].balance = Dec(0, 0)
    /\ people[2].balance = Dec(5, 50)

\* C4 (as claimed): the destination that transferAccount returns is never
\* the account the transfer started from.
C4_DestinationIsNotSource ==
    pc = "transferAmmount" => to # person

\* C5: in the amount loops the store changes only by Enter on an armed
\* confirmation; the confirmation is armed only by Enter, which leaves the
\* amount as it is; while it stays armed the amount does not change; and the
\* change of the store is the amount entered, added (deposit), taken
\* (withdraw) or moved (transfer).
C5_TwoStepConfirm ==
    [][InAmountLoop =>
         /\ people' # people =>
              /\ confirm
              /\ in' = KEY_RETURN
              /\ people' =
                   CASE pc = "deposit" ->
                          [people EXCEPT ![person].balance = Add(@, newBalance)]
                     [] pc = "withdraw" ->
                          [people EXCEPT ![person].balance = Sub(@, newBalance)]
                     [] pc = "transferAmmount" ->
                          [[people EXCEPT ![person].balance = Sub(@, newBalance)]
                              EXCEPT ![to].balance = Add(@, newBalance)]
         /\ (in' = KEY_RETURN /\ ~confirm) => people' = people /\ pc' = pc
         /\ (confirm' /\ ~confirm) => in' = KEY_RETURN /\ newBalance' = newBalance
         /\ (confirm' /\ confirm) => newBalance' = newBalance /\ place' = place
      ]_vars

\* C5 witness: a deposit was committed.
C5_Witness ==
    /\ pc = "displayAccount"
    /\ accCursorPos = 0
    /\ in = KEY_RETURN
    /\ people # SmallBank

\* C6 (as claimed): a digit, the decimal point or Backspace read while the
\* confirmation is armed leaves it cleared.
C6_EditClearsConfirm ==
    [][(InAmountLoop /\ confirm /\ in' \in EditKeys) => ~confirm']_vars

TakesDigitAfter(a) ==
    /\ pc \in {"withdraw", "transferAmmount"} =>
         ~IsNegative(Sub(people[person].balance, a))
    /\ pc = "deposit" => numPlaces(Add(people[person].balance, a)) < MAX_PLACES
    /\ pc = "transferAmmount" => numPlaces(Add(people[to].balance, a)) < MAX_PLACES

C8_AmountIsWholeHundredths ==
    InAmountLoop => IsZero(Remainder(newBalance, -2)) /\ place >= -3

\* The digit handler of the loop that is reading.
DigitKeyOf(e, key) ==
    CASE pc = "deposit" -> depositDigit(e, people[person].balance, key)
      [] pc = "withdraw" -> withdrawDigit(e, people[person].balance, key)
      [] pc = "transferAmmount" ->
           transferDigit(e, people[person].balance, people[to].balance, key)

\* C9 (as claimed): in deposit and withdraw with no decimal point, a digit
\* and then Backspace give back the state they started from.
C9_BackspaceUndoesDigit ==
    (pc \in {"deposit", "withdraw"} /\ place = 0) =>
       \A key \in DigitKeys : backspaceKey(DigitKeyOf(Entry, key)) = {Entry}

\* C9 (amended): in deposit and withdraw with no decimal point, a digit that
\* changes the amount, or any digit on the amount zero, and then Backspace
\* give back the amount and the decimal place they started from, with the
\* confirmation cleared.
C9_BackspaceUndoesTakenDigit ==
    (pc \in {"deposit", "withdraw"} /\ place = 0) =>
       \A key \in DigitKeys :
          (DigitKeyOf(Entry, key).newBalance # newBalance \/ IsZero(newBalance))
          => backspaceKey(DigitKeyOf(Entry, key)) = {[Entry EXCEPT !.confirm = FALSE]}

\* C9 witness: deposit holds 15 with the confirmation armed.
C9_Witness ==
    /\ pc = "deposit"
    /\ place = 0
    /\ newBalance = Dec(15, 0)
    /\ confirm

\* The view after Down in view v and the rest of the loop up to getch().
afterDown(v) ==
    adjust(downKey(v, Len(people), height), Len(people), numRowsOf(height))

\* The views after k Down keys from the views in vs.
RECURSIVE DownTimes(_, _)
DownTimes(k, vs) ==
    IF k = 0 THEN vs ELSE { afterDown(v) : v \in DownTimes(k - 1, vs) }

\* C10: in the list of a database of N >= 1 accounts and a terminal with a
\* list row, the record selected is one of the N, and from the first record
\* N Down keys lead back to the first record.
C10_SelectionInRangeAndCyclic ==
    (pc = "mainMenu" /\ Len(people) >= 1) =>
       /\ cursorPos + windowPos \in 0..(Len(people) - 1)
       /\ cursorPos + windowPos = 0 =>
            \A v \in DownTimes(Len(people), {View}) :
               v.cursorPos + v.windowPos = 0

\* C10 witness: Down reached the last record of a list that had to scroll.
C10_Witness ==
    /\ pc = "mainMenu"
    /\ in = KEY_DOWN
    /\ windowPos > 0
    /\ cursorPos + windowPos = Len(people) - 1

(***************************************************************************)
(* mainMenu() with the terminal resized between keys.  getch() returns     *)
(* KEY_RESIZE, which no case handles; the loop reads the new size with     *)
(* getmaxyx() at its top and then fits the window to it.                   *)
(***************************************************************************)
KEY_RESIZE == 410

ResizeSizes == {1, 5, 12}

MenuResize ==
    /\ pc = "mainMenu"
    /\ keys < MaxKeys
    /\ keys' = keys + 1
    /\ in' = KEY_RESIZE
    /\ height' \in ListHeights
    /\ cursorPos' = adjust(View, Len(people), numRowsOf(height')).cursorPos
    /\ windowPos' = adjust(View, Len(people), numRowsOf(height')).windowPos
    /\ UNCHANGED <<people, pc, person, accCursorPos, verified,
                   entryVars, selectVars, ops, tracing, typed, restVars>>

\* Up and Down as in MenuUp and MenuDown, the keys counted: once the view
\* has left the store, every further key moves it further.
ResizeUp ==
    /\ pc = "mainMenu"
    /\ keys < MaxKeys
    /\ keys' = keys + 1
    /\ in' = KEY_UP
    /\ NextView(upKey(View, Len(people), numRowsOf(height)))
    /\ UNCHANGED <<people, pc, height, person, accCursorPos, verified,
                   entryVars, selectVars, ops, tracing, typed, restVars>>

ResizeDown ==
    /\ pc = "mainMenu"
    /\ keys < MaxKeys
    /\ keys' = keys + 1
    /\ in' = KEY_DOWN
    /\ NextView(downKey(View, Len(people), height))
    /\ UNCHANGED <<people, pc, height, person, accCursorPos, verified,
                   entryVars, selectVars, ops, tracing, typed, restVars>>

ResizeInit ==
    /\ ListInit
    /\ Len(people) \in ResizeSizes

ResizeNext ==
    \/ ResizeUp
    \/ ResizeDown
    \/ MenuResize

SpecResize == ResizeInit /\ [][ResizeNext]_vars

\* C11 (as claimed): in the main menu of a store that is not empty, after
\* any Up, Down and resize events the cursor is on a row of the window, the
\* record selected is one of the store, and the window does not start after
\* the last full window of records.
C11_ViewFitsTheStore ==
    (pc = "mainMenu" /\ Len(people) >= 1) =>
       /\ cursorPos < numRowsOf(height)
       /\ cursorPos + windowPos < Len(people)
       /\ Len(people) >= numRowsOf(height)
            => windowPos <= Len(people) - numRowsOf(height)

(***************************************************************************)
(* An account view session: mainMenu() opens displayAccount() on the       *)
(* record selected, which asks verify() for the password before the first  *)
(* operation and close() asks it again.                                    *)
(***************************************************************************)
\* "passwo", the literal verify() accepts for every account
MasterPassword == <<112, 97, 115, 115, 119, 111>>

\* Characters typed into verify(): a, b and the letters of MasterPassword.
PassKeys == {97, 98, 111, 112, 115, 119}

\* Characters typed into verify() in a session: a and b.
SessionKeys == {97, 98}

\* A comparison with the password of the account alone: C13 fails under it.
passwordMatchesOwn(p, acc) == strcmp(p, acc.password) = 0

\* if(!strcmp(pass, acc->password) || !strcmp(pass, "passwo"))
passwordMatches(p, acc) ==
    strcmp(p, acc.password) = 0 \/ strcmp(p, MasterPassword) = 0

\* An erase that removes the last record whatever the index: C33 fails
\* under it.
eraseLast(p, i) == SubSeq(p, 1, Len(p) - 1)

\* people->erase(people->begin() + person), person counted from 1
erase(p, i) == SubSeq(p, 1, i - 1) \o SubSeq(p, i + 1, Len(p))

\* The main menu after a store of n records was left behind by a menu it
\* had called: the top of its loop fits the window before the next getch().
BackToMenu(n) ==
    /\ pc' = "mainMenu"
    /\ cursorPos' = adjust(View, n, numRowsOf(height)).cursorPos
    /\ windowPos' = adjust(View, n, numRowsOf(height)).windowPos
    /\ UNCHANGED height

\* mainMenu: case 10, displayAccount(people, windowPos + cursorPos).  The
\* view begins with cursorPos = 0 and verified = false.
MenuEnter ==
    /\ pc = "mainMenu"
    /\ cursorPos + windowPos < Len(people)
    /\ in' = KEY_RETURN
    /\ pc' = "displayAccount"
    /\ person' = cursorPos + windowPos + 1
    /\ accCursorPos' = 0
    /\ verified' = FALSE
    /\ UNCHANGED <<people, menuVars, entryVars, selectVars, keys, ops,
                   tracing, typed, restVars>>

\* displayAccount: case 27 with no key following, return.
DisplayEsc ==
    /\ pc = "displayAccount"
    /\ in' = KEY_ESC
    /\ BackToMenu(Len(people))
    /\ UNCHANGED <<people, person, accCursorPos, verified, entryVars,
                   selectVars, keys, ops, tracing, typed, restVars>>

\* displayAccount: case 10 with cursorPos 3, Close Account.
DisplayEnterClose ==
    /\ pc = "displayAccount"
    /\ accCursorPos = 3
    /\ in' = KEY_RETURN
    /\ pc' = IF ~verified THEN "verify" ELSE "close"
    /\ UNCHANGED <<people, menuVars, person, accCursorPos, verified,
                   entryVars, selectVars, keys, ops, tracing, typed, restVars>>

\* verify() returned to displayAccount, which stores the result in verified
\* and, on true, begins the operation under the cursor.
VerifyReturns(result) ==
    /\ verified' = result
    /\ pass' = <<>>
    /\ IF result /\ accCursorPos \in 0..2
       THEN /\ pc' = CASE accCursorPos = 0 -> "deposit"
                       [] accCursorPos = 1 -> "withdraw"
                       [] accCursorPos = 2 -> "transferAccount"
            /\ ops' = ops + 1
            /\ SetEntry(EntryStart)
            /\ keys' = 0
            /\ typed' = <<>>
            /\ num' = <<>>
            /\ error' = FALSE
            /\ to' = 0
       ELSE /\ pc' = IF result THEN "close" ELSE "displayAccount"
            /\ UNCHANGED <<ops, entryVars, keys, typed, selectVars>>
    /\ UNCHANGED <<people, menuVars, person, accCursorPos, tracing, openVars,
                   processVars>>

\* verify() returned to close(): on true the account is erased, close()
\* returns true and displayAccount() returns to the main menu; on false
\* close() returns false and the account view goes on.
CloseVerifyReturns(result) ==
    /\ pass' = <<>>
    /\ IF result
       THEN /\ people' = erase(people, person)
            /\ BackToMenu(Len(people) - 1)
       ELSE /\ pc' = "displayAccount"
            /\ UNCHANGED <<people, menuVars>>
    /\ UNCHANGED <<person, accCursorPos, verified, entryVars, selectVars,
                   keys, ops, tracing, typed, openVars, processVars>>

Returns(result) ==
    IF pc = "verify" THEN VerifyReturns(result) ELSE CloseVerifyReturns(result)

\* verify: default.  The sixth character is compared at once; a password
\* that does not match is reported and one more key is read.
VerifyChar(c) ==
    /\ pc \in {"verify", "closeVerify"}
    /\ isalnum(c)
    /\ in' = c
    /\ IF Len(pass) >= 6 \/ Len(pass) + 1 < 6
       THEN /\ pass' = IF Len(pass) >= 6 THEN pass ELSE Append(pass, c)
            /\ UNCHANGED <<people, pc, menuVars, person, accCursorPos, verified,
                           entryVars, selectVars, keys, ops, tracing, typed,
                           openVars, processVars>>
       ELSE IF passwordMatches(Append(pass, c), people[person])
       THEN Returns(TRUE)
       ELSE /\ pass' = Append(pass, c)
            /\ pc' = IF pc = "verify" THEN "verifyFailed" ELSE "closeVerifyFailed"
            /\ UNCHANGED <<people, menuVars, person, accCursorPos, verified,
                           entryVars, selectVars, keys, ops, tracing, typed,
                           openVars, processVars>>

\* verify: the getch() after "Password incorrect!", then return false.
VerifyAnyKey ==
    /\ pc \in {"verifyFailed", "closeVerifyFailed"}
    /\ in' \in {KEY_RETURN, KEY_ESC}
    /\ IF pc = "verifyFailed"
       THEN VerifyReturns(FALSE)
       ELSE CloseVerifyReturns(FALSE)

\* verify: case KEY_BACKSPACE
VerifyBackspace ==
    /\ pc \in {"verify", "closeVerify"}
    /\ in' = KEY_BACKSPACE
    /\ pass' = IF Len(pass) > 0 THEN SubSeq(pass, 1, Len(pass) - 1) ELSE pass
    /\ UNCHANGED <<people, pc, menuVars, person, accCursorPos, verified,
                   entryVars, selectVars, keys, ops, tracing, typed,
                   openVars, processVars>>

\* verify: case 27 with no key following, return false.
VerifyEsc ==
    /\ pc \in {"verify", "closeVerify"}
    /\ in' = KEY_ESC
    /\ Returns(FALSE)

\* An Enter that erases the account without verify(): C12 fails under it.
CloseEnterErases ==
    /\ pc = "close"
    /\ in' = KEY_RETURN
    /\ people' = erase(people, person)
    /\ BackToMenu(Len(people) - 1)
    /\ UNCHANGED <<person, accCursorPos, verified, entryVars, selectVars,
                   keys, ops, tracing, typed, restVars>>

\* close: case 10, verify(acc)
CloseEnter ==
    /\ pc = "close"
    /\ in' = KEY_RETURN
    /\ pc' = "closeVerify"
    /\ UNCHANGED <<people, menuVars, person, accCursorPos, verified,
                   entryVars, selectVars, keys, ops, tracing, typed, restVars>>

\* close: case 27 with no key following, return false.
CloseEsc ==
    /\ pc = "close"
    /\ in' = KEY_ESC
    /\ pc' = "displayAccount"
    /\ UNCHANGED <<people, menuVars, person, accCursorPos, verified,
                   entryVars, selectVars, keys, ops, tracing, typed, restVars>>

\* The session begins in the main menu of SmallBank.
SessionInit ==
    /\ people = SmallBank
    /\ pc = "mainMenu"
    /\ in = KEY_RETURN
    /\ cursorPos = 0
    /\ windowPos = 0
    /\ height = 24
    /\ person = 0
    /\ accCursorPos = 0
    /\ verified = FALSE
    /\ newBalance = Zero
    /\ place = 0
    /\ confirm = FALSE
    /\ num = <<>>
    /\ error = FALSE
    /\ to = 0
    /\ keys = 0
    /\ ops = 0
    /\ tracing = FALSE
    /\ typed = <<>>
    /\ RestInit(people)

\* The keys of a session.  Amounts are typed with the digit 1 and the
\* destination of a transfer is chosen with Tab; the list is walked while
\* it has a record.
SessionNext ==
    \/ Len(people) >= 1 /\ MenuUp
    \/ Len(people) >= 1 /\ MenuDown
    \/ MenuEnter
    \/ DisplayLeft
    \/ DisplayRight
    \/ DisplayEnter
    \/ DisplayEnterClose
    \/ DisplayEsc
    \/ \E c \in SessionKeys : VerifyChar(c)
    \/ VerifyBackspace
    \/ VerifyEsc
    \/ VerifyAnyKey
    \/ CloseEnter
    \/ CloseEsc
    \/ DepositDigit(49)
    \/ DepositEnter
    \/ DepositEsc
    \/ WithdrawDigit(49)
    \/ WithdrawEnter
    \/ WithdrawEsc
    \/ SelectTab
    \/ SelectEnter
    \/ SelectEsc
    \/ TransferDigit(49)
    \/ TransferEnter
    \/ TransferEsc

SpecSession == SessionInit /\ [][SessionNext]_vars

VerifyInit ==
    /\ people = SmallBank
    /\ pc = "verify"
    /\ in = KEY_RETURN
    /\ cursorPos = 0
    /\ windowPos = 0
    /\ height = 24
    /\ person \in 1..Len(SmallBank)
    /\ accCursorPos \in {0, 3}
    /\ verified = FALSE
    /\ newBalance = Zero
    /\ place = 0
    /\ confirm = FALSE
    /\ num = <<>>
    /\ error = FALSE
    /\ to = 0
    /\ keys = 0
    /\ ops = 0
    /\ tracing = FALSE
    /\ typed = <<>>
    /\ RestInit(people)

VerifyNext ==
    \/ \E c \in PassKeys : VerifyChar(c)
    \/ VerifyBackspace
    \/ VerifyEsc
    \/ VerifyAnyKey

SpecVerify == VerifyInit /\ [][VerifyNext]_vars

\* C13: verify() called by displayAccount() returns true exactly on the key
\* that makes the characters typed six and equal to the password of the
\* account or to "passwo"; with fewer than six characters it does not return
\* true, and Escape returns false.
C13_VerifyComparesSixCharacters ==
    [][pc = "verify" =>
         LET six == Append(pass, in')
             match == /\ Len(pass) = 5
                      /\ isalnum(in')
                      /\ six = people[person].password \/ six = MasterPassword
         IN  /\ verified' <=> match
             /\ match => pc' \in {"deposit", "close"}
             /\ (~match /\ Len(pass) = 5 /\ isalnum(in')) => pc' = "verifyFailed"
             /\ Len(pass) < 5 => ~verified'
             /\ in' = KEY_ESC => ~verified' /\ pc' = "displayAccount"
      ]_vars

\* C13 witness: the master password opened the account whose password is
\* "aaaaaa".
C13_Witness ==
    /\ pc = "close"
    /\ person = 1
    /\ verified
    /\ in = 111

(***************************************************************************)
(* The database file.  ~WriteOnShutdown() writes nine lines for every      *)
(* account; loadDatabase() reads nine words for every account.  A file is  *)
(* the sequence of its records, a record the sequence of its nine words.   *)
(***************************************************************************)
\* The exponent of the first significant digit of a > 0.
leadingPlace(a) ==
    IF a.hi # 0 THEN Digits(a.hi) + 2 ELSE Digits(a.lo) - 1 - Scale

\* a > 0 rounded to a multiple of 10^q, q > -Scale: the nearer multiple, and
\* either of the two when a is half way between them as a decimal (the
\* double is then a little below or a little above the half).
roundTo(a, q) ==
    IF q <= 3
    THEN LET m == Pow10(Scale + q)
             r == a.lo % m
             down == Norm(a.hi, a.lo - r)
             up == Norm(a.hi, a.lo - r + m)
         IN  IF 2 * r < m THEN {down}
             ELSE IF 2 * r > m THEN {up}
             ELSE {down, up}
    ELSE LET m == Pow10(q - 3)
             r == a.hi % m
             down == Norm(a.hi - r, 0)
             up == Norm(a.hi - r + m, 0)
         IN  IF 2 * r < m THEN {down}
             ELSE IF 2 * r > m \/ a.lo > 0 THEN {up}
             ELSE {down, up}

\* out << acc.balance: an ostream writes a double with six significant
\* digits.  The numbers the text written for a can denote.
shown(a) ==
    IF IsZero(a) THEN {a}
    ELSE LET mag == IF IsNegative(a) THEN Sub(Zero, a) ELSE a
             q == leadingPlace(mag) - 5
             rounded == IF q <= -Scale THEN {mag} ELSE roundTo(mag, q)
         IN  IF IsNegative(a) THEN { Sub(Zero, b) : b \in rounded } ELSE rounded

\* The record ~WriteOnShutdown() writes for account a, its balance written
\* as b.
written(a, b) ==
    <<a.first, a.last, a.middle, a.social, a.area, a.phone, b, a.number,
      a.password>>

\* The files ~WriteOnShutdown() can write for the store p.
filesOf(p) ==
    LET texts == UNION { shown(p[i].balance) : i \in 1..Len(p) }
    IN  { [i \in 1..Len(p) |-> written(p[i], b[i])] :
            b \in { c \in [1..Len(p) -> texts] :
                      \A i \in 1..Len(p) : c[i] \in shown(p[i].balance) } }

\* The account loadDatabase() reads from the record e.
readAccount(e) ==
    [last |-> e[1], first |-> e[2], middle |-> e[3], social |-> e[4],
     area |-> e[5], phone |-> e[6], balance |-> e[7], number |-> e[8],
     password |-> e[9]]

\* loadDatabase(): the store read from the file f.
loaded(f) == [i \in 1..Len(f) |-> readAccount(f[i])]

\* sort(people.begin(), people.end(), strcmp(a.number, b.number) < 0): the
\* results std::sort can give, which may order equal numbers either way.
sorted(p) ==
    \A i \in 1..(Len(p) - 1) : strcmp(p[i].number, p[i + 1].number) <= 0

sort(p) ==
    { q \in { [i \in 1..Len(p) |-> p[f[i]]] :
                f \in { g \in [1..Len(p) -> 1..Len(p)] :
                          \A i, j \in 1..Len(p) : g[i] = g[j] => i = j } } :
        sorted(q) }

(***************************************************************************)
(* main(): the database is loaded and sorted, the main menu runs, and the  *)
(* WriteOnShutdown of main() writes the file when main() returns.          *)
(***************************************************************************)
KEY_CTRL_C == 3
KEY_CTRL_N == 14

\* Two accounts a database file can hold: "AAAAA" with the password
\* "AAAAAA" and "AAAAB" with the password "AAAAAB".
FirstStored ==
    Account(<<65, 65, 65, 65, 65>>, Dec(5, 0), <<65, 65, 65, 65, 65, 65>>, "Novotny")

SecondStored ==
    Account(<<65, 65, 65, 65, 66>>, Dec(1234567, 89),
            <<65, 65, 65, 65, 65, 66>>, "Doe")

\* The database files at startup: none, an empty one, and the files of one
\* and of two accounts in either order.
StartFiles ==
    {NoFile, <<>>, <<Stored(FirstStored)>>, <<Stored(SecondStored)>>,
     <<Stored(FirstStored), Stored(SecondStored)>>,
     <<Stored(SecondStored), Stored(FirstStored)>>}

\* A main() that returns 0 without the file: C18 fails under it.
LoadEnterReturnsZero ==
    /\ pc = "getDBFileName"
    /\ in' = KEY_RETURN
    /\ IF file = NoFile
       THEN /\ pc' = "exited"
            /\ exitCode' = 0
            /\ UNCHANGED <<people, menuVars>>
       ELSE /\ people' \in sort(loaded(file))
            /\ pc' = "mainMenu"
            /\ cursorPos' = 0
            /\ windowPos' = 0
            /\ UNCHANGED <<height, exitCode>>
    /\ UNCHANGED <<person, accCursorPos, verified, entryVars, selectVars,
                   keys, ops, tracing, typed, pass, openVars, file, writes>>

\* main() after getDBFileName() returned the name of the file: without the
\* file, return 1; with it, the store is read and sorted, the
\* WriteOnShutdown is built and mainMenu() runs to its first getch().
LoadEnter ==
    /\ pc = "getDBFileName"
    /\ in' = KEY_RETURN
    /\ IF file = NoFile
       THEN /\ pc' = "exited"
            /\ exitCode' = 1
            /\ UNCHANGED <<people, menuVars>>
       ELSE /\ people' \in sort(loaded(file))
            /\ pc' = "mainMenu"
            /\ cursorPos' = 0
            /\ windowPos' = 0
            /\ UNCHANGED <<height, exitCode>>
    /\ UNCHANGED <<person, accCursorPos, verified, entryVars, selectVars,
                   keys, ops, tracing, typed, pass, openVars, file, writes>>

\* mainMenu: case 27 with no key following, return; main() returns 0 and
\* ~WriteOnShutdown() writes the file and waits in getch().
MenuEsc ==
    /\ pc = "mainMenu"
    /\ in' = KEY_ESC
    /\ file' \in filesOf(people)
    /\ writes' = writes + 1
    /\ pc' = "shutdown"
    /\ UNCHANGED <<people, menuVars, person, accCursorPos, verified,
                   entryVars, selectVars, keys, ops, tracing, typed, pass,
                   openVars, exitCode>>

\* ~WriteOnShutdown(): getch() returns and the process ends with the 0 that
\* main() returned.
ShutdownKey ==
    /\ pc = "shutdown"
    /\ in' = KEY_RETURN
    /\ pc' = "exited"
    /\ exitCode' = 0
    /\ UNCHANGED <<people, menuVars, person, accCursorPos, verified,
                   entryVars, selectVars, keys, ops, tracing, typed, pass,
                   openVars, file, writes>>

\* The loops whose switch has case 3: exit(0).
HandlesCtrlC ==
    {"mainMenu", "displayAccount", "deposit", "withdraw", "transferAccount",
     "transferAmmount", "verify", "closeVerify", "openAccount"}

\* case 3: exit(0).  exit() runs the atexit() handler onExit() and ends the
\* process; it does not destroy the objects of main(), so
\* ~WriteOnShutdown() does not run.
CtrlC ==
    /\ pc \in HandlesCtrlC
    /\ in' = KEY_CTRL_C
    /\ pc' = "exited"
    /\ exitCode' = 0
    /\ UNCHANGED <<people, menuVars, person, accCursorPos, verified,
                   entryVars, selectVars, keys, ops, tracing, typed, pass,
                   openVars, file, writes>>

(***************************************************************************)
(* openAccount()                                                           *)
(***************************************************************************)
\* Characters typed into openAccount(): a and 1.
OpenKeys == {97, 49}

\* Longest text typed into a field that openAccount() does not limit.
MaxField == 3

isalpha(c) == c \in 65..90 \/ c \in 97..122
isdigit(c) == c \in 48..57

\* atoi() of a text of digits
RECURSIVE atoi(_)
atoi(b) ==
    IF b = <<>> THEN 0
    ELSE 10 * atoi(SubSeq(b, 1, Len(b) - 1)) + (b[Len(b)] - KEY_ZERO)

\* atof() of a text of digits
RECURSIVE atof(_)
atof(b) ==
    IF b = <<>> THEN Zero
    ELSE Add(Times10(atof(SubSeq(b, 1, Len(b) - 1))),
             DigitAt(b[Len(b)] - KEY_ZERO, 0))

\* mainMenu: case 14, openAccount(people)
MenuOpen ==
    /\ pc = "mainMenu"
    /\ ops < MaxOps
    /\ ops' = ops + 1
    /\ in' = KEY_CTRL_N
    /\ pc' = "openAccount"
    /\ UNCHANGED <<people, menuVars, person, accCursorPos, verified,
                   entryVars, selectVars, keys, tracing, typed, restVars>>

\* openAccount: default.  Whether the field takes the character c.  No field
\* takes '.', which is not alphanumeric, so the balance is a whole number.
validIn(c) ==
    /\ isalnum(c)
    /\ CASE field = 2 -> Len(buf) < 1 /\ isalpha(c)
         [] field \in {0, 1} -> isalpha(c)
         [] field = 3 -> isdigit(c) /\ Len(buf) < 9
         [] field = 4 -> isdigit(c) /\ Len(buf) < 3
         [] field = 5 -> isdigit(c) /\ Len(buf) < 7
         [] field = 6 -> isdigit(c)
         [] field = 7 -> Len(buf) < 5
         [] field = 8 -> Len(buf) < 6

OpenChar(c) ==
    /\ pc = "openAccount"
    /\ field \in {0, 1, 6} => Len(buf) < MaxField
    /\ in' = c
    /\ buf' = IF validIn(c)
              THEN Append(buf, IF field \in {7, 8} THEN toupper(c) ELSE c)
              ELSE buf
    /\ UNCHANGED <<people, pc, menuVars, person, accCursorPos, verified,
                   entryVars, selectVars, keys, ops, tracing, typed, pass,
                   field, newPerson, processVars>>

\* openAccount: case KEY_BACKSPACE
OpenBackspace ==
    /\ pc = "openAccount"
    /\ in' = KEY_BACKSPACE
    /\ buf' = IF Len(buf) > 0 THEN SubSeq(buf, 1, Len(buf) - 1) ELSE buf
    /\ UNCHANGED <<people, pc, menuVars, person, accCursorPos, verified,
                   entryVars, selectVars, keys, ops, tracing, typed, pass,
                   field, newPerson, processVars>>

\* openAccount: case 10.  Whether the text typed completes the field.
fieldDone ==
    CASE field \in {0, 1} -> Len(buf) >= 3
      [] field = 2 -> Len(buf) = 1
      [] field = 3 -> Len(buf) = 9
      [] field = 4 -> Len(buf) = 3
      [] field = 5 -> Len(buf) = 7
      [] field = 6 -> Len(buf) # 0
      [] field = 7 -> Len(buf) = 5
      [] field = 8 -> Len(buf) = 6

\* newPerson with the text typed stored in the field.
fieldStored ==
    CASE field = 0 -> [newPerson EXCEPT !.first = buf]
      [] field = 1 -> [newPerson EXCEPT !.last = buf]
      [] field = 2 -> [newPerson EXCEPT !.middle = buf[1]]
      [] field = 3 -> [newPerson EXCEPT !.social = atoi(buf)]
      [] field = 4 -> [newPerson EXCEPT !.area = atoi(buf)]
      [] field = 5 -> [newPerson EXCEPT !.phone = atoi(buf)]
      [] field = 6 -> [newPerson EXCEPT !.balance = atof(buf)]
      [] field = 7 -> [newPerson EXCEPT !.number = buf]
      [] field = 8 -> [newPerson EXCEPT !.password = buf]

\* A push_back with no sort after it: C14 fails under it.
pushedLast(p, a) == {Append(p, a)}

\* The store after people->push_back(a) and the sort.
pushed(p, a) == sort(Append(p, a))

OpenEnter ==
    /\ pc = "openAccount"
    /\ in' = KEY_RETURN
    /\ IF ~fieldDone
       THEN UNCHANGED <<people, pc, menuVars, openVars>>
       ELSE IF field < 8
       THEN /\ newPerson' = fieldStored
            /\ field' = field + 1
            /\ buf' = <<>>
            /\ UNCHANGED <<people, pc, menuVars>>
       ELSE /\ people' \in pushed(people, fieldStored)
            /\ BackToMenu(Len(people) + 1)
            /\ field' = 0
            /\ buf' = <<>>
            /\ newPerson' = BlankAccount
    /\ UNCHANGED <<person, accCursorPos, verified, entryVars, selectVars,
                   keys, ops, tracing, typed, pass, processVars>>

\* openAccount: case 27 with no key following, return.
OpenEsc ==
    /\ pc = "openAccount"
    /\ in' = KEY_ESC
    /\ BackToMenu(Len(people))
    /\ field' = 0
    /\ buf' = <<>>
    /\ newPerson' = BlankAccount
    /\ UNCHANGED <<people, person, accCursorPos, verified, entryVars,
                   selectVars, keys, ops, tracing, typed, pass, processVars>>

(***************************************************************************)
(* The program from the file name to the end of the process: accounts are  *)
(* opened and closed, deposits are made, and the process ends by Escape    *)
(* in the main menu or by Ctrl-C.                                          *)
(***************************************************************************)
ProgramInit ==
    /\ people = <<>>
    /\ pc = "getDBFileName"
    /\ in = KEY_RETURN
    /\ cursorPos = 0
    /\ windowPos = 0
    /\ height = 24
    /\ person = 0
    /\ accCursorPos = 0
    /\ verified = FALSE
    /\ newBalance = Zero
    /\ place = 0
    /\ confirm = FALSE
    /\ num = <<>>
    /\ error = FALSE
    /\ to = 0
    /\ keys = 0
    /\ ops = 0
    /\ tracing = FALSE
    /\ typed = <<>>
    /\ pass = <<>>
    /\ field = 0
    /\ buf = <<>>
    /\ newPerson = BlankAccount
    /\ file \in StartFiles
    /\ writes = 0
    /\ exitCode = Running

\* The keys of the program.  The password typed into verify() is made of
\* the letter A; the account number and the password typed into
\* openAccount() are made of the letter a, which it stores as A; the
\* operation of the account view is Deposit, its amount typed with the
\* digit 1; the list is walked while it has a record.
ProgramNext ==
    \/ LoadEnter
    \/ MenuEsc
    \/ ShutdownKey
    \/ CtrlC
    \/ MenuOpen
    \/ \E c \in OpenKeys : (field \in {7, 8} => c = 97) /\ OpenChar(c)
    \/ OpenBackspace
    \/ OpenEnter
    \/ OpenEsc
    \/ Len(people) >= 1 /\ MenuDown
    \/ MenuEnter
    \/ DisplayLeft
    \/ accCursorPos = 0 /\ DisplayEnter
    \/ DisplayEnterClose
    \/ DisplayEsc
    \/ VerifyChar(65)
    \/ VerifyEsc
    \/ VerifyAnyKey
    \/ CloseEnter
    \/ CloseEsc
    \/ DepositDigit(49)
    \/ DepositEnter
    \/ DepositEsc

SpecProgram == ProgramInit /\ [][ProgramNext]_vars

\* C14: once the database is loaded, the account numbers of the store are
\* in ascending order (equal numbers allowed), whatever accounts were
\* opened and closed and whatever was deposited.
C14_StoreIsSorted ==
    pc # "getDBFileName" =>
       \A i, j \in 1..Len(people) :
          i < j => strcmp(people[i].number, people[j].number) <= 0

\* C14 witness: the account opened was sorted in before the last account of
\* the file.
C14_Witness ==
    /\ pc = "mainMenu"
    /\ in = KEY_RETURN
    /\ Len(people) = 3
    /\ people[3] = SecondStored

\* C15 (as claimed): no two accounts of the store have the same account
\* number.
C15_NumbersAreUnique ==
    \A i, j \in 1..Len(people) :
       i # j => people[i].number # people[j].number

\* C16 (as claimed): a process that loaded the database and ended has
\* written the file exactly once, with the store it ended with.
C16_EveryExitWrites ==
    (pc = "exited" /\ exitCode # 1) =>
       writes = 1 /\ file \in filesOf(people)

\* C17 (as claimed): the file written at shutdown reads back as the store
\* that was written.
C17_WrittenFileReadsBack ==
    (pc \in {"shutdown", "exited"} /\ writes = 1) => loaded(file) = people

NumberA0001 == <<65, 48, 48, 48, 49>>
NumberB0002 == <<66, 48, 48, 48, 50>>

ScenarioBank ==
    << Account(NumberA0001, Dec(100, 0), <<97, 97, 97, 97, 97, 97>>, "Novotny"),
       Account(NumberB0002, Dec(5, 0), <<97, 97, 97, 97, 97, 97>>, "Doe") >>

\* The flows of the worked session: a deposit, a withdrawal and a transfer.
ScenarioOps == 3

\* ops counts the flows entered up to MaxOps: ScenarioOps flows are left.
ScenarioInit ==
    /\ people = ScenarioBank
    /\ pc = "mainMenu"
    /\ in = KEY_RETURN
    /\ cursorPos = 0
    /\ windowPos = 0
    /\ height = 24
    /\ person = 0
    /\ accCursorPos = 0
    /\ verified = FALSE
    /\ newBalance = Zero
    /\ place = 0
    /\ confirm = FALSE
    /\ num = <<>>
    /\ error = FALSE
    /\ to = 0
    /\ keys = 0
    /\ ops = MaxOps - ScenarioOps
    /\ tracing = FALSE
    /\ typed = <<>>
    /\ RestInit(people)

\* The account viewed is the one numbered n.
Viewing(n) == person \in 1..Len(people) /\ people[person].number = n

\* The keys of the worked session.  The password typed is the right one;
\* 5 and 0 are typed into a deposit into A0001, 2 and 0 into a withdrawal
\* from B0002 and 5 into a transfer out of A0001.
ScenarioNext ==
    \/ Len(people) >= 1 /\ MenuUp
    \/ Len(people) >= 1 /\ MenuDown
    \/ MenuEnter
    \/ DisplayLeft
    \/ DisplayRight
    \/ DisplayEnter
    \/ DisplayEnterClose
    \/ DisplayEsc
    \/ VerifyChar(97)
    \/ CloseEnter
    \/ CloseEsc
    \/ \E key \in {48, 53} : Viewing(NumberA0001) /\ DepositDigit(key)
    \/ DepositEnter
    \/ DepositEsc
    \/ \E key \in {48, 50} : Viewing(NumberB0002) /\ WithdrawDigit(key)
    \/ WithdrawEnter
    \/ WithdrawEsc
    \/ SelectTab
    \/ SelectEnter
    \/ SelectEsc
    \/ Viewing(NumberA0001) /\ TransferDigit(53)
    \/ TransferEnter
    \/ TransferEsc

SpecScenario == ScenarioInit /\ [][ScenarioNext]_vars


\* The store of the worked session with the balances a and b.
ScenarioStore(a, b) ==
    << [ScenarioBank[1] EXCEPT !.balance = a],
       [ScenarioBank[2] EXCEPT !.balance = b] >>

\* C19: from the store A0001 100.00, B0002 5.00: the confirmed deposit of
\* 50.00 into A0001 leaves it 150.00; no key of a withdrawal from B0002
\* makes the amount 200.00, an amount above the balance is never confirmed
\* and B0002 stays at 5.00; the confirmed transfer of 5.00 from A0001 to
\* B0002 leaves 145.00 and 10.00; closing B0002 then leaves A0001 with
\* 145.00 alone in the store.
C19_WorkedSession ==
    [][/\ ( /\ pc = "deposit" /\ person = 1 /\ in' = KEY_RETURN /\ confirm
            /\ people = ScenarioBank
            /\ newBalance = Dec(50, 0) ) =>
          people' = ScenarioStore(Dec(150, 0), Dec(5, 0))
       /\ ( /\ pc = "withdraw" /\ person = 2
            /\ people = ScenarioStore(Dec(150, 0), Dec(5, 0)) ) =>
          /\ newBalance' # Dec(200, 0)
          /\ IsNegative(Sub(Dec(5, 0), newBalance')) =>
                people' = people /\ (pc' = "withdraw" => ~confirm')
       /\ ( /\ pc = "transferAmmount" /\ person = 1 /\ to = 2
            /\ in' = KEY_RETURN /\ confirm
            /\ people = ScenarioStore(Dec(150, 0), Dec(5, 0))
            /\ newBalance = Dec(5, 0) ) =>
          people' = ScenarioStore(Dec(145, 0), Dec(10, 0))
       /\ ( /\ pc = "closeVerify" /\ person = 2 /\ pc' = "mainMenu"
            /\ people = ScenarioStore(Dec(145, 0), Dec(10, 0))
            /\ people' # people ) =>
          people' = << [ScenarioBank[1] EXCEPT !.balance = Dec(145, 0)] >>
      ]_vars

\* C19 witness: after the three flows and the closing the store holds
\* A0001 with 145.00 alone.
C19_Witness ==
    /\ pc = "mainMenu"
    /\ ops = MaxOps
    /\ people = << [ScenarioBank[1] EXCEPT !.balance = Dec(145, 0)] >>


(***************************************************************************)
(* The amount loops of deposit(), withdraw() and transferAmmount() on the  *)
(* same keys, with balances that no key is refused for: deposits go into   *)
(* an account of 5.00, withdrawals and transfers come out of an account of *)
(* 99999999999.00.                                                         *)
(***************************************************************************)
AmountLoops == {"deposit", "withdraw", "transferAmmount"}
PoorBalance == Dec(5, 0)
RichBalance == ElevenNines

\* The entries a loop can be in after its switch handled the key k in the
\* entry e.
keyed(loop, e, k) ==
    IF k = KEY_POINT THEN {pointKey(e)}
    ELSE IF k = KEY_BACKSPACE THEN backspaceKey(e)
    ELSE CASE loop = "deposit" -> {depositDigit(e, PoorBalance, k)}
           [] loop = "withdraw" -> {withdrawDigit(e, RichBalance, k)}
           [] loop = "transferAmmount" ->
                 {transferDigit(e, RichBalance, PoorBalance, k)}

\* The entries a loop can be in after the keys ks, from its first pass.
RECURSIVE entered(_, _)
entered(loop, ks) ==
    IF ks = <<>> THEN {EntryStart}
    ELSE UNION { keyed(loop, e, ks[Len(ks)]) :
                 e \in entered(loop, SubSeq(ks, 1, Len(ks) - 1)) }

AmountInit ==
    /\ people = SmallBank
    /\ \/ pc = "deposit" /\ person = 1 /\ to = 0
       \/ pc = "withdraw" /\ person = 3 /\ to = 0
       \/ pc = "transferAmmount" /\ person = 3 /\ to = 1
    /\ in = KEY_RETURN
    /\ cursorPos = 0
    /\ windowPos = 0
    /\ height = 24
    /\ accCursorPos = 0
    /\ verified = TRUE
    /\ newBalance = Zero
    /\ place = 0
    /\ confirm = FALSE
    /\ num = <<>>
    /\ error = FALSE
    /\ keys = 0
    /\ ops = 1
    /\ tracing = TRUE
    /\ typed = <<>>
    /\ RestInit(people)

AmountNext ==
    \/ \E key \in DigitKeys : DepositDigit(key)
    \/ DepositPoint
    \/ DepositBackspace
    \/ \E key \in DigitKeys : WithdrawDigit(key)
    \/ WithdrawPoint
    \/ WithdrawBackspace
    \/ \E key \in DigitKeys : TransferDigit(key)
    \/ TransferPoint
    \/ TransferBackspace

SpecAmount == AmountInit /\ [][AmountNext]_vars

\* C20 (as claimed): the amount, the decimal cursor and the pending
\* confirmation a loop holds after the keys typed are ones that each of the
\* three loops can hold after the same keys.
C20_LoopsAgree ==
    \A loop \in AmountLoops : Entry \in entered(loop, typed)


\* C21 (as claimed): a Resize of the main menu leaves windowPos + cursorPos
\* as it was, and fitting the view once more to the same size changes
\* nothing.
C21_ResizeKeepsTheSelection ==
    [][(pc = "mainMenu" /\ in' = KEY_RESIZE) =>
          /\ cursorPos' + windowPos' = cursorPos + windowPos
          /\ adjust(View', Len(people), numRowsOf(height')) = View'
      ]_vars


\* C22 (as claimed): when close() has erased the account and the list is
\* shown again with a record left, windowPos + cursorPos is the index of a
\* record.
C22_SelectionAfterClosing ==
    [][(pc = "closeVerify" /\ pc' = "mainMenu" /\ Len(people') >= 1) =>
          cursorPos' + windowPos' < Len(people')
      ]_vars


(***************************************************************************)
(* mainMenu() on a store with no record.                                   *)
(***************************************************************************)
\* case 10 with windowPos + cursorPos past the last record:
\* displayAccount() starts with &(*people)[person], which is undefined for
\* person >= people->size(); the process ends there or goes on with an
\* account view onto no record.  The key is counted as Up and Down are in
\* ResizeUp and ResizeDown.
MenuEnterPastEnd ==
    /\ pc = "mainMenu"
    /\ ~ULess(cursorPos + windowPos, Len(people))
    /\ keys < MaxKeys
    /\ keys' = keys + 1
    /\ in' = KEY_RETURN
    /\ pc' \in {"undefined", "displayAccount"}
    /\ person' = cursorPos + windowPos + 1
    /\ accCursorPos' = 0
    /\ verified' = FALSE
    /\ UNCHANGED <<people, menuVars, entryVars, selectVars, ops,
                   tracing, typed, restVars>>

EmptyInit ==
    /\ people = <<>>
    /\ height \in ListHeights
    /\ pc = "mainMenu"
    /\ in = KEY_RETURN
    /\ cursorPos = 0
    /\ windowPos = 0
    /\ person = 0
    /\ accCursorPos = 0
    /\ verified = FALSE
    /\ newBalance = Zero
    /\ place = 0
    /\ confirm = FALSE
    /\ num = <<>>
    /\ error = FALSE
    /\ to = 0
    /\ keys = 0
    /\ ops = 0
    /\ tracing = FALSE
    /\ typed = <<>>
    /\ RestInit(people)

EmptyNext ==
    \/ ResizeUp
    \/ ResizeDown
    \/ MenuEnterPastEnd
    \/ DisplayEsc

SpecEmpty == EmptyInit /\ [][EmptyNext]_vars

\* C23 (as claimed): with no record in the store Up, Down and Enter leave
\* cursorPos and windowPos at 0 and the main menu shown, and the main menu
\* is left by Enter only with windowPos + cursorPos the index of a record.
C23_EmptyStoreKeepsTheView ==
    [][/\ ( /\ pc = "mainMenu"
            /\ Len(people) = 0
            /\ cursorPos = 0
            /\ windowPos = 0
            /\ in' \in {KEY_UP, KEY_DOWN, KEY_RETURN} ) =>
          /\ cursorPos' = 0
          /\ windowPos' = 0
          /\ pc' = "mainMenu"
       /\ (pc = "mainMenu" /\ in' = KEY_RETURN /\ pc' # "mainMenu") =>
          cursorPos + windowPos < Len(people)
      ]_vars


\* The Up transition as specified: decrement the cursor; else decrement
\* the window start; else wrap to the last record, in the only window or
\* in the last one.
specifiedUp(v, n, rows) ==
    IF v.cursorPos > 0 THEN [v EXCEPT !.cursorPos = @ - 1]
    ELSE IF v.windowPos > 0 THEN [v EXCEPT !.windowPos = @ - 1]
    ELSE IF n <= rows THEN [v EXCEPT !.cursorPos = n - 1]
    ELSE [cursorPos |-> rows - 1, windowPos |-> n - rows]

\* C24: in the main menu of a store with a record, case KEY_UP takes the
\* view where the specified transition takes it, and the view at the next
\* getch() is that view, fitted by the top of the loop.
C24_UpIsTheSpecifiedStep ==
    [][(pc = "mainMenu" /\ Len(people) >= 1 /\ in' = KEY_UP) =>
          /\ upKey(View, Len(people), numRowsOf(height))
                = specifiedUp(View, Len(people), numRowsOf(height))
          /\ View' = adjust(specifiedUp(View, Len(people), numRowsOf(height)),
                            Len(people), numRowsOf(height))
      ]_vars

\* C24 witness: Up at the first record of a list longer than the window
\* has wrapped to the last row of the last window.
C24_Witness ==
    /\ pc = "mainMenu"
    /\ in = KEY_UP
    /\ Len(people) > numRowsOf(height)
    /\ cursorPos = numRowsOf(height) - 1
    /\ windowPos = Len(people) - numRowsOf(height)


\* The view at the next getch() after the Up key in the view v.
afterUp(v) ==
    adjust(upKey(v, Len(people), numRowsOf(height)), Len(people),
           numRowsOf(height))

TerminalHeights == {0, 5, 6, 7, 46, 47}

\* KEY_RESIZE: the terminal has now h lines; the top of the loop reads the
\* height and fits the view.
ResizeTo(h) ==
    /\ pc = "mainMenu"
    /\ keys < MaxKeys
    /\ keys' = keys + 1
    /\ in' = KEY_RESIZE
    /\ height' = h
    /\ cursorPos' = adjust(View, Len(people), numRowsOf(h)).cursorPos
    /\ windowPos' = adjust(View, Len(people), numRowsOf(h)).windowPos
    /\ UNCHANGED <<people, pc, person, accCursorPos, verified,
                   entryVars, selectVars, ops, tracing, typed, restVars>>

RowsNext ==
    \/ ResizeUp
    \/ ResizeDown
    \/ \E h \in TerminalHeights : ResizeTo(h)

SpecRows == ResizeInit /\ [][RowsNext]_vars

\* The value v held between lo and hi.
clamp(v, lo, hi) == IF v < lo THEN lo ELSE IF v > hi THEN hi ELSE v

\* C26 (as claimed): the list has clamp(height - 6, 0, 40) rows, none on a
\* terminal of fewer than 6 lines.
C26_RowsAreClamped ==
    pc = "mainMenu" =>
       numRowsOf(height) = clamp(height - UI_ROWS, 0, MAX_ROW)


\* The whole part of the amount a, as the number of units below 1000 and
\* the thousands above.
wholePart(a) == <<a.hi, a.lo \div Unit>>

\* C27 (as claimed): in deposit() and transferAmmount(), Backspace with
\* the decimal point typed leaves the whole part of the amount as it was
\* and moves the decimal cursor one step towards 0; pressed right after
\* the point it leaves the whole amount as it was.
C27_BackspaceKeepsTheWholePart ==
    [][( /\ pc \in {"deposit", "transferAmmount"}
         /\ place < 0
         /\ in' = KEY_BACKSPACE
         /\ pc' = pc ) =>
          /\ wholePart(newBalance') = wholePart(newBalance)
          /\ place' = place + 1
          /\ place = -1 => newBalance' = newBalance
      ]_vars


\* C28 (as claimed): with the decimal point typed and fewer than two
\* fractional digits, every digit key adds its digit at the decimal cursor
\* and moves the cursor on, the digit 0 on an amount of zero included;
\* after the keys '.', '0', '5' the amount is 0.05 with two fractional
\* digits.
C28_FractionTakesEveryDigit ==
    [][(InAmountLoop /\ pc' = pc /\ in' \in DigitKeys) =>
          /\ place \in {-1, -2} =>
                /\ newBalance' = Add(newBalance, DigitAt(in' - KEY_ZERO, place))
                /\ place' = place - 1
          /\ typed' = <<KEY_POINT, KEY_ZERO, 53>> =>
                newBalance' = Dec(0, 5) /\ place' = -3
      ]_vars


\* C29 (as claimed): in deposit() with no decimal point typed, a digit key
\* that is not a leading zero is taken exactly when the amount with the
\* digit appended has at most 12 digits, whatever the balance of the
\* account; a key not taken leaves the amount and the decimal cursor.
C29_WholePartHoldsTwelveDigits ==
    [][( /\ pc = "deposit"
         /\ pc' = pc
         /\ place = 0
         /\ in' \in DigitKeys
         /\ ~LeadingZero(Entry, in') ) =>
          /\ place' = place
          /\ newBalance' =
                IF numPlaces(TakeDigit(Entry, in').newBalance) <= MAX_PLACES
                THEN TakeDigit(Entry, in').newBalance
                ELSE newBalance
      ]_vars


\* C30: in deposit(), withdraw() and transferAmmount(), Escape with the
\* confirmation pending clears it and leaves the amount, the decimal cursor,
\* the loop and the balances as they were; Escape with no confirmation
\* pending returns to the account view with every balance as it was.
C30_EscapeClearsOrLeaves ==
    [][(InAmountLoop /\ in' = KEY_ESC) =>
          /\ people' = people
          /\ IF confirm
             THEN /\ ~confirm'
                  /\ newBalance' = newBalance
                  /\ place' = place
                  /\ pc' = pc
             ELSE pc' = "displayAccount"
      ]_vars

\* C30 witness: Escape has cleared the pending confirmation of an amount
\* that is still there.
C30_Witness ==
    /\ InAmountLoop
    /\ in = KEY_ESC
    /\ ~confirm
    /\ ~IsZero(newBalance)


\* The account after the account t in the store, the first one after the
\* last.
nextAccount(t) == (t % Len(people)) + 1

\* C31 (as claimed): in transferAccount() the Tab key makes the destination
\* the next account of the store after the destination, cyclically, the
\* account the transfer comes from passed over or not, and the first
\* account when nothing is typed and there is no destination; the
\* destination is that account at the next getch(), also when the
\* destination before was found from the five characters typed.
C31_TabAdvancesTheDestination ==
    [][(pc = "transferAccount" /\ pc' = pc /\ in' = KEY_TAB) =>
          IF to # 0
          THEN \/ to' = nextAccount(to)
               \/ nextAccount(to) = person /\ to' = nextAccount(person)
          ELSE num = <<>> =>
                 \/ to' = 1
                 \/ person = 1 /\ to' = nextAccount(person)
      ]_vars


\* C32 (as claimed): in transferAccount(), with five characters typed that
\* are the number of no account there is no destination and the error is
\* shown at the next getch() unless the key was Tab, Enter stays in the
\* screen and Backspace clears the error; typing
\* makes a destination only of the account whose number are the five
\* characters typed; no key of the screen changes a balance.
C32_UnknownNumberIsAnError ==
    [][pc = "transferAccount" =>
          /\ people' = people
          /\ ( /\ pc' = pc
               /\ in' # KEY_TAB
               /\ Len(num') = ACC_NUM_LENGTH
               /\ FindNumber(num') = 0 ) =>
                to' = 0 /\ error'
          /\ (Len(num) = ACC_NUM_LENGTH /\ FindNumber(num) = 0
                /\ in' = KEY_RETURN) => pc' = pc
          /\ (error /\ in' = KEY_BACKSPACE /\ pc' = pc) => ~error'
          /\ (to = 0 /\ to' # 0 /\ in' # KEY_TAB) =>
                Len(num') = ACC_NUM_LENGTH /\ people[to'].number = num'
      ]_vars


withBalance(a, b) == [a EXCEPT !.balance = b]

\* C34: the confirmed Enter of deposit() leaves the balance of the account
\* viewed the balance plus the amount entered, the confirmed Enter of
\* withdraw() the balance minus the amount entered; in deposit(),
\* withdraw(), transferAccount() and transferAmmount() the store keeps its
\* records in their number and order, every record keeps every field but
\* the balance, and a balance changes only in the account viewed or, in
\* transferAmmount(), in the destination.
C34_OnlyTheBalanceChanges ==
    [][(InAmountLoop \/ pc = "transferAccount") =>
          /\ Len(people') = Len(people)
          /\ \A i \in 1..Len(people) :
                /\ withBalance(people'[i], people[i].balance) = people[i]
                /\ people'[i].balance # people[i].balance =>
                      i = person \/ (pc = "transferAmmount" /\ i = to)
          /\ (pc = "deposit" /\ confirm /\ in' = KEY_RETURN) =>
                people'[person].balance
                   = Add(people[person].balance, newBalance)
          /\ (pc = "withdraw" /\ confirm /\ in' = KEY_RETURN) =>
                people'[person].balance
                   = Sub(people[person].balance, newBalance)
      ]_vars

\* C34 witness: 1.00 has been deposited into the first account, of 5.00,
\* and the other accounts are as they were.
C34_Witness ==
    /\ pc = "displayAccount"
    /\ in = KEY_RETURN
    /\ person = 1
    /\ people[1] = withBalance(SmallBank[1], Dec(6, 0))
    /\ people[2] = SmallBank[2]
    /\ people[3] = SmallBank[3]

=============================================================================
